---- MODULE Spec2Model ----
(***************************************************************************)
(* ExCompara (src/tool.py): comparison of two vulnerability workbooks.     *)
(*                                                                         *)
(* The script of src/tool.py lines 321-341 builds one ExCompara object,    *)
(* calls calculate_cve_changes() and then generate_analysis_report(),      *)
(* which calls find_fixed_cves(), find_newly_added_cves() and              *)
(* compare_severity_analysis() and finally saves analysis_report.xlsx.     *)
(* Each method is one action; pc is the position of the script.            *)
(*                                                                         *)
(* A workbook file is a record [exists, sheets]; sheets maps each sheet    *)
(* name to what pandas parses from that sheet:                             *)
(*   columns  the header names, in order (DataFrame.columns)               *)
(*   CVE_ID   the cells of the column named "CVE_ID", in row order         *)
(*            (NULL for an empty cell); <<>> when there is no such column  *)
(*   labels   the cells of the first column        (DataFrame.iloc[:, 0])  *)
(*   counts   per row, the cells of columns 2..    (DataFrame.iloc[:, 1:]) *)
(***************************************************************************)
EXTENDS Integers, Sequences, FiniteSets, TLC

VARIABLES
  old_file,            \* the workbook at self.old_file_path
  new_file,            \* the workbook at self.new_file_path
  save_result,         \* what workbook.save will do: "ok", "PermissionError", "OSError"
  pc,                  \* position of the script
  old_mapping,         \* last value returned by _read_excel_file(old_file_path)
  new_mapping,         \* last value returned by _read_excel_file(new_file_path)
  total_old_cves,      \* calculate_cve_changes: len(distinct_old_cves)
  total_new_cves,      \* calculate_cve_changes: len(distinct_new_cves)
  percent_increment,   \* calculate_cve_changes: the printed percentage, in 1/100 %
  fixed_cves,          \* generate_analysis_report: result of find_fixed_cves()
  newly_added_cves,    \* generate_analysis_report: result of find_newly_added_cves()
  severity_diff,       \* generate_analysis_report: result of compare_severity_analysis()
  raised,              \* the exception that left the script, or "none"
  report_saved,        \* analysis_report.xlsx has been written
  printed              \* messages printed by the save block, in order

vars == <<old_file, new_file, save_result, pc, old_mapping, new_mapping,
          total_old_cves, total_new_cves, percent_increment, fixed_cves,
          newly_added_cves, severity_diff, raised, report_saved, printed>>

----------------------------------------------------------------------------
(* Bounds of the explored inputs.                                          *)

\* longest CVE_ID column of a sheet
MaxLen == 2
\* most rows of a "vulnerability_count" sheet
MaxRows == 2

CVE_IDS == {"CVE-1", "CVE-2"}
IMAGE_SHEETS == {"App1", "App2"}
\* an empty cell (pandas NaN) of a CVE_ID column
NULL == "nan"
\* cell values of the numeric columns of the summary sheet
COUNTS == {2, 5}
\* header names of the summary sheet: first the label column, then the numeric
\* ones, whose names are in sorted order
SEVERITY_HEADERS == <<"Image", "Critical", "High">>
\* labels of the summary sheet, by row
ROW_LABELS == <<"App1", "App2", "App3", "App4">>
OTHER_LABELS == <<"Img-a", "Img-b", "Img-c", "Img-d">>

SeqsUpTo(S, n) == UNION {[1..k -> S] : k \in 0..n}
Range(s) == {s[i] : i \in DOMAIN s}
\* {}, a dict without keys
EmptyDict == [key \in {} |-> <<>>]
\* the value of severity_diff before compare_severity_analysis returns
NoTable == [columns |-> <<>>, labels |-> <<>>, counts |-> <<>>]

----------------------------------------------------------------------------
(* pandas / Python primitives used by the code.                            *)

\* Series.dropna().tolist(): the non-null cells, in row order
RECURSIVE dropna(_)
dropna(cells) ==
  IF cells = <<>> THEN <<>>
  ELSE IF Head(cells) = NULL THEN dropna(Tail(cells))
       ELSE <<Head(cells)>> \o dropna(Tail(cells))

\* set(list)
set(list) == {list[i] : i \in DOMAIN list}

\* list(a_set): every element once, in an order Python does not specify
list(S) == {l \in [1..Cardinality(S) -> S] : set(l) = S}

\* a lookup that never finds the key
get_always_default(mapping, key) == <<>>

\* dict.get(key, [])
get(mapping, key) == IF key \in DOMAIN mapping THEN mapping[key] ELSE <<>>

\* f"{x:.2f}" of new / old * 100, as an integer number of hundredths:
\* the nearest hundredth, a tie going to the even one
fmt2f(new, old) ==
  LET q == (new * 10000) \div old
      r == (new * 10000) % old
  IN  IF 2 * r > old \/ (2 * r = old /\ q % 2 = 1) THEN q + 1 ELSE q

----------------------------------------------------------------------------
(* _read_excel_file, src/tool.py lines 57-85                               *)

FileExists(file) == file.exists

\* the sheets that get an entry: every sheet but "Sheet1" that has a column
\* named "CVE_ID"
MappedSheets(file) ==
  {name \in DOMAIN file.sheets :
      /\ name # "Sheet1"
      /\ "CVE_ID" \in Range(file.sheets[name].columns)}

_read_excel_file(file) ==
  [name \in MappedSheets(file) |-> dropna(file.sheets[name].CVE_ID)]

----------------------------------------------------------------------------
(* find_fixed_cves / find_newly_added_cves, src/tool.py lines 87-123       *)

\* the difference taken the wrong way round
missing_cves_reversed(old_map, new_map, sheet_name) ==
  set(get(new_map, sheet_name)) \ set(old_map[sheet_name])

\* set(old_cves) - set(new_cves) of one sheet (line 100)
missing_cves(old_map, new_map, sheet_name) ==
  set(old_map[sheet_name]) \ set(get(new_map, sheet_name))

\* a sheet that is new in the new file is skipped
added_cves_shared_sheets_only(old_map, new_map, sheet_name) ==
  IF sheet_name \in DOMAIN old_map
  THEN set(new_map[sheet_name]) \ set(old_map[sheet_name])
  ELSE {}

\* the old identifiers are not taken away
added_cves_no_subtraction(old_map, new_map, sheet_name) ==
  set(new_map[sheet_name])

\* set(new_cves) - set(old_cves) of one sheet (line 119)
added_cves(old_map, new_map, sheet_name) ==
  set(new_map[sheet_name]) \ set(get(old_map, sheet_name))

\* the dicts the loop of lines 97-104 can build: one per order of each list
FixedResults(old_map, new_map) ==
  LET keys == {s \in DOMAIN old_map : missing_cves(old_map, new_map, s) # {}}
  IN  {f \in [keys -> SeqsUpTo(CVE_IDS, Cardinality(CVE_IDS))] :
         \A s \in keys : f[s] \in list(missing_cves(old_map, new_map, s))}

\* the dicts the loop of lines 116-123 can build
AddedResults(old_map, new_map) ==
  LET keys == {s \in DOMAIN new_map : added_cves(old_map, new_map, s) # {}}
  IN  {f \in [keys -> SeqsUpTo(CVE_IDS, Cardinality(CVE_IDS))] :
         \A s \in keys : f[s] \in list(added_cves(old_map, new_map, s))}

----------------------------------------------------------------------------
(* calculate_cve_changes, src/tool.py lines 148-167                        *)

\* set(cve for cves in mapping.values() for cve in cves)
distinct_cves(mapping) == UNION {set(mapping[s]) : s \in DOMAIN mapping}

\* the length of the flattened lists, without set(): duplicates are counted
RECURSIVE total_with_duplicates(_)
total_with_duplicates(mapping) ==
  IF DOMAIN mapping = {} THEN 0
  ELSE LET s == CHOOSE k \in DOMAIN mapping : TRUE
       IN  Len(mapping[s]) +
           total_with_duplicates([k \in DOMAIN mapping \ {s} |-> mapping[k]])

\* len(set(...)), lines 156-157 and 160-161
total_cves(mapping) == Cardinality(distinct_cves(mapping))

PercentIncrement(total_new, total_old) ==
  IF total_old # 0 THEN fmt2f(total_new, total_old) ELSE 0

----------------------------------------------------------------------------
(* The script.                                                             *)

Raise(exc) ==
  /\ pc' = "crashed"
  /\ raised' = exc

\* the exception of _read_excel_file for the two paths, read old first
ReadError == ~FileExists(old_file) \/ ~FileExists(new_file)

CalculateCveChanges ==
  /\ pc = "calculate_cve_changes"
  /\ IF ReadError
     THEN /\ Raise("FileNotFoundError")
          /\ UNCHANGED <<old_mapping, new_mapping, total_old_cves,
                         total_new_cves, percent_increment>>
     ELSE /\ old_mapping' = _read_excel_file(old_file)
          /\ new_mapping' = _read_excel_file(new_file)
          /\ total_old_cves' = total_cves(old_mapping')
          /\ total_new_cves' = total_cves(new_mapping')
          /\ percent_increment' = PercentIncrement(total_new_cves', total_old_cves')
          /\ pc' = "find_fixed_cves"
          /\ UNCHANGED raised
  /\ UNCHANGED <<old_file, new_file, save_result, fixed_cves, newly_added_cves,
                 severity_diff, report_saved, printed>>

FindFixedCves ==
  /\ pc = "find_fixed_cves"
  /\ IF ReadError
     THEN /\ Raise("FileNotFoundError")
          /\ UNCHANGED <<old_mapping, new_mapping, fixed_cves>>
     ELSE /\ old_mapping' = _read_excel_file(old_file)
          /\ new_mapping' = _read_excel_file(new_file)
          /\ fixed_cves' \in FixedResults(old_mapping', new_mapping')
          /\ pc' = "find_newly_added_cves"
          /\ UNCHANGED raised
  /\ UNCHANGED <<old_file, new_file, save_result, total_old_cves, total_new_cves,
                 percent_increment, newly_added_cves, severity_diff,
                 report_saved, printed>>

FindNewlyAddedCves ==
  /\ pc = "find_newly_added_cves"
  /\ IF ReadError
     THEN /\ Raise("FileNotFoundError")
          /\ UNCHANGED <<old_mapping, new_mapping, newly_added_cves>>
     ELSE /\ old_mapping' = _read_excel_file(old_file)
          /\ new_mapping' = _read_excel_file(new_file)
          /\ newly_added_cves' \in AddedResults(old_mapping', new_mapping')
          /\ pc' = "compare_severity_analysis"
          /\ UNCHANGED raised
  /\ UNCHANGED <<old_file, new_file, save_result, total_old_cves, total_new_cves,
                 percent_increment, fixed_cves, severity_diff,
                 report_saved, printed>>

----------------------------------------------------------------------------
(* compare_severity_analysis, src/tool.py lines 125-146                    *)

\* a numeric cell of a DataFrame: a number, or NaN
Num(v) == [nan |-> FALSE, v |-> v]
NaN == [nan |-> TRUE, v |-> 0]

HasSummary(file) == "vulnerability_count" \in DOMAIN file.sheets

\* pd.read_excel(path, sheet_name="vulnerability_count")
read_excel(file) ==
  LET sheet == file.sheets["vulnerability_count"]
  IN  [columns |-> sheet.columns, labels |-> sheet.labels, counts |-> sheet.counts]

NumRows(data) == Len(data.labels)
\* the column names of data.iloc[:, 1:]
NumericColumns(data) == Tail(data.columns)
IndexOf(seq, x) == CHOOSE i \in DOMAIN seq : seq[i] = x
Max(a, b) == IF a >= b THEN a ELSE b

\* columns of old.iloc[:, 1:] - new.iloc[:, 1:]: pandas joins the two column
\* indexes (outer join, sorted).  Every summary sheet explored here has a
\* prefix of SEVERITY_HEADERS as its columns and the numeric names of
\* SEVERITY_HEADERS are in sorted order, so the join is the longer of the two.
JoinColumns(a, b) == IF Len(a) >= Len(b) THEN a ELSE b

\* new - old instead of old - new
Subtract_reversed(old_data, new_data) ==
  LET cols == JoinColumns(NumericColumns(old_data), NumericColumns(new_data))
      rows == Max(NumRows(old_data), NumRows(new_data))
      cell(r, h) ==
        IF /\ r <= NumRows(old_data) /\ r <= NumRows(new_data)
           /\ h \in Range(NumericColumns(old_data))
           /\ h \in Range(NumericColumns(new_data))
        THEN Num(new_data.counts[r][IndexOf(NumericColumns(new_data), h)]
                 - old_data.counts[r][IndexOf(NumericColumns(old_data), h)])
        ELSE NaN
  IN  [columns |-> cols,
       cells |-> [r \in 1..rows |-> [c \in 1..Len(cols) |-> cell(r, cols[c])]]]

\* old_data.iloc[:, 1:] - new_data.iloc[:, 1:] (line 144, right-hand side):
\* aligned on the row index and on the column names; NaN where a cell has no
\* counterpart
Subtract(old_data, new_data) ==
  LET cols == JoinColumns(NumericColumns(old_data), NumericColumns(new_data))
      rows == Max(NumRows(old_data), NumRows(new_data))
      cell(r, h) ==
        IF /\ r <= NumRows(old_data) /\ r <= NumRows(new_data)
           /\ h \in Range(NumericColumns(old_data))
           /\ h \in Range(NumericColumns(new_data))
        THEN Num(old_data.counts[r][IndexOf(NumericColumns(old_data), h)]
                 - new_data.counts[r][IndexOf(NumericColumns(new_data), h)])
        ELSE NaN
  IN  [columns |-> cols,
       cells |-> [r \in 1..rows |-> [c \in 1..Len(cols) |-> cell(r, cols[c])]]]

\* the value assigned at line 144 has the shape of diff_data.iloc[:, 1:]
SameShape(old_data, diff) ==
  /\ Len(diff.cells) = NumRows(old_data)
  /\ Len(diff.columns) = Len(NumericColumns(old_data))

\* diff_data = old_data.copy(); diff_data.iloc[:, 1:] = diff (lines 143-144):
\* the label column and the headers are those of old_data, the cells are
\* taken from diff by position
Assign(old_data, diff) ==
  [columns |-> old_data.columns,
   labels  |-> old_data.labels,
   counts  |-> [r \in 1..NumRows(old_data) |->
                  [c \in 1..Len(NumericColumns(old_data)) |-> diff.cells[r][c]]]]

\* What lines 143-146 can do.  When the difference has the shape of the
\* target the assignment succeeds.  When it is larger (new_data has more rows
\* or more columns than old_data) the code checks nothing itself and the
\* outcome is left to pandas' positional setitem, which depending on its
\* version refuses the value (ValueError) or stores the part that fits.
SeverityOutcomes(old_data, new_data) ==
  LET diff == Subtract(old_data, new_data)
      ok   == [exc |-> "none", value |-> Assign(old_data, diff)]
  IN  IF SameShape(old_data, diff) THEN {ok}
      ELSE {ok, [exc |-> "ValueError", value |-> NoTable]}

\* a missing "vulnerability_count" sheet is swallowed and the report goes on
\* with an empty severity table
CompareSeverityAnalysis_missing_sheet_ignored ==
  /\ pc = "compare_severity_analysis"
  /\ IF ReadError
     THEN /\ Raise("FileNotFoundError")
          /\ UNCHANGED severity_diff
     ELSE IF ~HasSummary(old_file) \/ ~HasSummary(new_file)
     THEN /\ severity_diff' = NoTable
          /\ pc' = "save_workbook"
          /\ UNCHANGED raised
     ELSE \E out \in SeverityOutcomes(read_excel(old_file), read_excel(new_file)) :
            IF out.exc # "none"
            THEN /\ Raise(out.exc)
                 /\ UNCHANGED severity_diff
            ELSE /\ severity_diff' = out.value
                 /\ pc' = "save_workbook"
                 /\ UNCHANGED raised
  /\ UNCHANGED <<old_file, new_file, save_result, old_mapping, new_mapping,
                 total_old_cves, total_new_cves, percent_increment, fixed_cves,
                 newly_added_cves, report_saved, printed>>

CompareSeverityAnalysis ==
  /\ pc = "compare_severity_analysis"
  /\ IF ReadError
     THEN /\ Raise("FileNotFoundError")
          /\ UNCHANGED severity_diff
     ELSE IF ~HasSummary(old_file) \/ ~HasSummary(new_file)
     THEN /\ Raise("ValueError")
          /\ UNCHANGED severity_diff
     ELSE \E out \in SeverityOutcomes(read_excel(old_file), read_excel(new_file)) :
            IF out.exc # "none"
            THEN /\ Raise(out.exc)
                 /\ UNCHANGED severity_diff
            ELSE /\ severity_diff' = out.value
                 /\ pc' = "save_workbook"
                 /\ UNCHANGED raised
  /\ UNCHANGED <<old_file, new_file, save_result, old_mapping, new_mapping,
                 total_old_cves, total_new_cves, percent_increment, fixed_cves,
                 newly_added_cves, report_saved, printed>>

----------------------------------------------------------------------------
(* generate_analysis_report, the save block: src/tool.py lines 186-318     *)

SUCCESS_MESSAGE == "Analysis report generated successfully."
PERMISSION_MESSAGE == "Error: Permission denied. Please close the analysis_report.xlsx file and try again."
ERROR_MESSAGE == "Error:"

\* workbook.save without the except clauses: a failure leaves the method
SaveWorkbook_uncaught ==
  /\ pc = "save_workbook"
  /\ IF save_result = "ok"
     THEN /\ report_saved' = TRUE
          /\ printed' = Append(printed, SUCCESS_MESSAGE)
          /\ pc' = "done"
          /\ UNCHANGED raised
     ELSE /\ Raise(save_result)
          /\ UNCHANGED <<report_saved, printed>>
  /\ UNCHANGED <<old_file, new_file, save_result, old_mapping, new_mapping,
                 total_old_cves, total_new_cves, percent_increment, fixed_cves,
                 newly_added_cves, severity_diff>>

\* workbook.save inside try / except PermissionError / except Exception
SaveWorkbook ==
  /\ pc = "save_workbook"
  /\ IF save_result = "ok"
     THEN /\ report_saved' = TRUE
          /\ printed' = Append(printed, SUCCESS_MESSAGE)
     ELSE IF save_result = "PermissionError"
     THEN /\ printed' = Append(printed, PERMISSION_MESSAGE)
          /\ UNCHANGED report_saved
     ELSE /\ printed' = Append(printed, ERROR_MESSAGE)
          /\ UNCHANGED report_saved
  /\ pc' = "done"
  /\ UNCHANGED <<old_file, new_file, save_result, old_mapping, new_mapping,
                 total_old_cves, total_new_cves, percent_increment, fixed_cves,
                 newly_added_cves, severity_diff, raised>>

----------------------------------------------------------------------------
(* Inputs.                                                                 *)

\* a sheet whose only column is `header`, holding `cells`
OneColumnSheet(header, cells) ==
  [columns |-> <<header>>,
   CVE_ID  |-> IF header = "CVE_ID" THEN cells ELSE <<>>,
   labels  |-> cells,
   counts  |-> [i \in DOMAIN cells |-> <<>>]]

\* a "vulnerability_count" sheet of one row and one numeric column
BaseSummary ==
  [columns |-> <<"Image", "Critical">>, CVE_ID |-> <<>>,
   labels |-> <<"App1">>, counts |-> << <<5>> >>]

\* workbooks of image sheets with a CVE_ID column, and the summary sheet
DiffWorkbooks ==
  {[exists |-> TRUE,
    sheets |-> [name \in names \cup {"vulnerability_count"} |->
                  IF name = "vulnerability_count" THEN BaseSummary
                  ELSE OneColumnSheet("CVE_ID", ids[name])]] :
     names \in SUBSET IMAGE_SHEETS,
     ids \in [IMAGE_SHEETS -> SeqsUpTo(CVE_IDS, MaxLen)]}

StartAt(position) ==
  /\ pc = position
  /\ old_mapping = EmptyDict
  /\ new_mapping = EmptyDict
  /\ total_old_cves = 0
  /\ total_new_cves = 0
  /\ percent_increment = 0
  /\ fixed_cves = EmptyDict
  /\ newly_added_cves = EmptyDict
  /\ severity_diff = NoTable
  /\ raised = "none"
  /\ report_saved = FALSE
  /\ printed = <<>>

InitDiff ==
  /\ old_file \in DiffWorkbooks
  /\ new_file \in DiffWorkbooks
  /\ save_result = "ok"
  /\ StartAt("calculate_cve_changes")

NextDiff ==
  \/ CalculateCveChanges
  \/ FindFixedCves
  \/ FindNewlyAddedCves

\* the three readers of the CVE_ID sheets, over all pairs of DiffWorkbooks
SpecDiff == InitDiff /\ [][NextDiff]_vars

\* "vulnerability_count" sheets of up to MaxRows rows whose columns are a
\* prefix of SEVERITY_HEADERS, with the first rows of label_names as labels
SummarySheets(label_names) ==
  UNION {UNION {{[columns |-> SubSeq(SEVERITY_HEADERS, 1, c + 1),
                  CVE_ID  |-> <<>>,
                  labels  |-> SubSeq(label_names, 1, r),
                  counts  |-> cells] : cells \in [1..r -> [1..c -> COUNTS]]} :
                c \in 1..(Len(SEVERITY_HEADERS) - 1)} :
         r \in 1..MaxRows}

SeverityWorkbooks(label_names) ==
  {[exists |-> TRUE,
    sheets |-> [name \in {"App1", "vulnerability_count"} |->
                  IF name = "vulnerability_count" THEN summary
                  ELSE OneColumnSheet("CVE_ID", <<"CVE-1">>)]] :
     summary \in SummarySheets(label_names)}

InitSev ==
  /\ old_file \in SeverityWorkbooks(ROW_LABELS)
  /\ new_file \in SeverityWorkbooks(ROW_LABELS) \cup SeverityWorkbooks(OTHER_LABELS)
  /\ save_result = "ok"
  /\ StartAt("compare_severity_analysis")

NextSev == CompareSeverityAnalysis

\* compare_severity_analysis, over all pairs of summary sheets
SpecSev == InitSev /\ [][NextSev]_vars

\* workbooks whose sheets may be named "Sheet1" or "vulnerability_count",
\* may lack the CVE_ID column and may hold empty cells
ReadSheets ==
  {OneColumnSheet(header, cells) :
     header \in {"CVE_ID", "Package"},
     cells \in SeqsUpTo({"CVE-1", NULL}, MaxLen)}

ReadWorkbooks ==
  {[exists |-> TRUE, sheets |-> [name \in names |-> sheet[name]]] :
     names \in SUBSET {"App1", "Sheet1", "vulnerability_count"},
     sheet \in [{"App1", "Sheet1", "vulnerability_count"} -> ReadSheets]}

InitRead ==
  /\ old_file \in ReadWorkbooks
  /\ new_file = [exists |-> TRUE,
                 sheets |-> [name \in {"vulnerability_count"} |-> BaseSummary]]
  /\ save_result = "ok"
  /\ StartAt("calculate_cve_changes")

\* _read_excel_file over ReadWorkbooks
SpecRead == InitRead /\ [][NextDiff]_vars

MissingFile == [exists |-> FALSE, sheets |-> EmptyDict]

\* the files of a run of the script: missing, without the summary sheet, or
\* complete
RunWorkbooks ==
  {MissingFile} \cup
  {[exists |-> TRUE, sheets |-> [name \in names |->
                  IF name = "vulnerability_count" THEN BaseSummary
                  ELSE OneColumnSheet("CVE_ID", ids)]] :
     names \in {{"App1"}, {"App1", "vulnerability_count"}},
     ids \in {<<"CVE-1">>, <<"CVE-2", "CVE-2">>}}

Init ==
  /\ old_file \in RunWorkbooks
  /\ new_file \in RunWorkbooks
  /\ save_result \in {"ok", "PermissionError", "OSError"}
  /\ StartAt("calculate_cve_changes")

Next ==
  \/ CalculateCveChanges
  \/ FindFixedCves
  \/ FindNewlyAddedCves
  \/ CompareSeverityAnalysis
  \/ SaveWorkbook

\* a run of the script, src/tool.py lines 321-341
Spec == Init /\ [][Next]_vars

----------------------------------------------------------------------------
(* Properties.                                                             *)

\* positions of the script after find_fixed_cves / find_newly_added_cves /
\* calculate_cve_changes have returned
AfterFixed == pc \in {"find_newly_added_cves", "compare_severity_analysis",
                      "save_workbook", "done"}
AfterAdded == pc \in {"compare_severity_analysis", "save_workbook", "done"}
AfterCalculate == pc \in {"find_fixed_cves", "find_newly_added_cves",
                          "compare_severity_analysis", "save_workbook", "done"}

AllSheets == IMAGE_SHEETS \cup {"Sheet1", "vulnerability_count"}

\* the identifiers listed for sheet s in table T; none when T has no sheet s
IdsOf(T, s) ==
  IF s \in DOMAIN T THEN {x \in CVE_IDS : \E i \in DOMAIN T[s] : T[s][i] = x}
  ELSE {}

\* the sequence l lists exactly the elements of V, each once
ListsOnce(l, V) ==
  /\ \A x \in V : Cardinality({i \in DOMAIN l : l[i] = x}) = 1
  /\ \A i \in DOMAIN l : l[i] \in V

\* C1: with A the old and B the new identifier table, the result of
\* find_fixed_cves has sheet s iff V = set(A[s]) \ set(B[s] or nothing) is not
\* empty, its value lists exactly the identifiers of V, each once, and no
\* sheet absent from A appears in it.
C1_FixedIsSetDifference ==
  AfterFixed =>
    /\ DOMAIN fixed_cves \subseteq DOMAIN old_mapping
    /\ \A s \in AllSheets :
         LET V == IdsOf(old_mapping, s) \ IdsOf(new_mapping, s)
         IN  /\ (s \in DOMAIN fixed_cves) <=> (s \in DOMAIN old_mapping /\ V # {})
             /\ s \in DOMAIN fixed_cves => ListsOnce(fixed_cves[s], V)

\* old App1 lists CVE-1 twice and new App1 lists CVE-2; App2 is only in new
C1_Witness ==
  /\ AfterFixed
  /\ old_mapping = ("App1" :> <<"CVE-1", "CVE-1">>)
  /\ new_mapping = ("App1" :> <<"CVE-2">> @@ "App2" :> <<"CVE-1">>)
  /\ fixed_cves = ("App1" :> <<"CVE-1">>)

\* C2: the result of find_newly_added_cves has sheet s iff s is a sheet of B
\* and V = set(B[s]) \ set(A[s] or nothing) is not empty, with value V; a
\* sheet only in B has no fixed entry and all its distinct identifiers added.
C2_AddedIsSetDifference ==
  AfterAdded =>
    /\ DOMAIN newly_added_cves \subseteq DOMAIN new_mapping
    /\ \A s \in AllSheets :
         LET V == IdsOf(new_mapping, s) \ IdsOf(old_mapping, s)
         IN  /\ (s \in DOMAIN newly_added_cves) <=> (s \in DOMAIN new_mapping /\ V # {})
             /\ s \in DOMAIN newly_added_cves => ListsOnce(newly_added_cves[s], V)
             /\ (s \in DOMAIN new_mapping /\ s \notin DOMAIN old_mapping) =>
                  /\ s \notin DOMAIN fixed_cves
                  /\ IdsOf(new_mapping, s) # {} =>
                       /\ s \in DOMAIN newly_added_cves
                       /\ ListsOnce(newly_added_cves[s], IdsOf(new_mapping, s))

\* App2 exists only in the new file, listing CVE-2 twice
C2_Witness ==
  /\ AfterAdded
  /\ old_mapping = ("App1" :> <<"CVE-1">>)
  /\ new_mapping = ("App1" :> <<"CVE-1">> @@ "App2" :> <<"CVE-2", "CVE-2">>)
  /\ DOMAIN fixed_cves = {}
  /\ newly_added_cves = ("App2" :> <<"CVE-2">>)

\* C3: when the old and the new identifier table are the same table, both
\* find_fixed_cves and find_newly_added_cves return an empty mapping.
C3_SelfComparisonIsEmpty ==
  old_mapping = new_mapping =>
    /\ AfterFixed => DOMAIN fixed_cves = {}
    /\ AfterAdded => DOMAIN newly_added_cves = {}

\* a file with a duplicated identifier and an empty sheet, compared with itself
C3_Witness ==
  /\ AfterAdded
  /\ old_file = new_file
  /\ old_mapping = ("App1" :> <<"CVE-1", "CVE-1">> @@ "App2" :> <<>>)
  /\ new_mapping = old_mapping
  /\ DOMAIN fixed_cves = {}
  /\ DOMAIN newly_added_cves = {}

AllIds(T) == UNION {IdsOf(T, s) : s \in AllSheets}

OldSummary == old_file.sheets["vulnerability_count"]
NewSummary == new_file.sheets["vulnerability_count"]

\* the two summary sheets have the same headers and the same number of rows
SameShapeAndHeaders ==
  /\ OldSummary.columns = NewSummary.columns
  /\ Len(OldSummary.labels) = Len(NewSummary.labels)

\* C5: for summary tables of identical shape and headers,
\* compare_severity_analysis returns a table of that shape whose label column
\* is the old table's and whose cell at row r, numeric column c is
\* old[r][c] - new[r][c]; the new table's labels play no part.
C5_SeverityDelta ==
  (pc # "compare_severity_analysis" /\ SameShapeAndHeaders) =>
    /\ pc = "save_workbook"
    /\ severity_diff.columns = OldSummary.columns
    /\ severity_diff.labels = OldSummary.labels
    /\ DOMAIN severity_diff.counts = DOMAIN OldSummary.counts
    /\ \A r \in DOMAIN OldSummary.counts :
         /\ DOMAIN severity_diff.counts[r] = DOMAIN OldSummary.counts[r]
         /\ \A c \in DOMAIN OldSummary.counts[r] :
              /\ ~severity_diff.counts[r][c].nan
              /\ severity_diff.counts[r][c].v =
                   OldSummary.counts[r][c] - NewSummary.counts[r][c]

\* old row ["App1", 5, 2], new row ["Img-a", 2, 2]: delta row ["App1", 3, 0]
C5_Witness ==
  /\ pc = "save_workbook"
  /\ OldSummary.labels = <<"App1">>
  /\ OldSummary.counts = << <<5, 2>> >>
  /\ NewSummary.labels = <<"Img-a">>
  /\ NewSummary.counts = << <<2, 2>> >>
  /\ severity_diff.labels = <<"App1">>
  /\ severity_diff.counts = << <<Num(3), Num(0)>> >>

\* C6: _read_excel_file gives a sheet an entry iff the sheet is named neither
\* "vulnerability_count" nor "Sheet1" and has a column named "CVE_ID".
C6_SummarySheetExcluded ==
  AfterCalculate =>
    \A name \in AllSheets :
      (name \in DOMAIN old_mapping) <=>
        /\ name \in DOMAIN old_file.sheets
        /\ name \notin {"vulnerability_count", "Sheet1"}
        /\ \E i \in DOMAIN old_file.sheets[name].columns :
              old_file.sheets[name].columns[i] = "CVE_ID"

\* C7: when the two summary tables differ in row count or in column count,
\* compare_severity_analysis fails with an error and returns no table.
C7_ShapeMismatchFails ==
  (pc # "compare_severity_analysis" /\ ~SameShapeAndHeaders) =>
    /\ pc = "crashed"
    /\ raised # "none"
    /\ severity_diff = NoTable

InputsComplete ==
  /\ FileExists(old_file) /\ FileExists(new_file)
  /\ HasSummary(old_file) /\ HasSummary(new_file)

\* C8: the report is saved only after both tables were loaded and the three
\* analyses returned; when an input file is missing or lacks the
\* "vulnerability_count" sheet the error leaves the run, the save is never
\* reached, and no step follows the failure (nothing is retried).
C8_NoPartialReport ==
  /\ [](/\ (report_saved \/ pc \in {"save_workbook", "done"}) =>
             /\ InputsComplete
             /\ raised = "none"
             /\ old_mapping = _read_excel_file(old_file)
             /\ new_mapping = _read_excel_file(new_file)
             /\ fixed_cves \in FixedResults(old_mapping, new_mapping)
             /\ newly_added_cves \in AddedResults(old_mapping, new_mapping)
             /\ severity_diff # NoTable
        /\ report_saved => pc = "done"
        /\ ~InputsComplete =>
             /\ ~report_saved
             /\ printed = <<>>
             /\ pc \in {"calculate_cve_changes", "find_fixed_cves",
                        "find_newly_added_cves", "compare_severity_analysis",
                        "crashed"}
        /\ pc = "crashed" =>
             /\ raised \in {"FileNotFoundError", "ValueError"}
             /\ ~report_saved)
  /\ [][pc # "crashed"]_vars

\* the new file has no "vulnerability_count" sheet: ValueError, nothing saved
C8_Witness ==
  /\ pc = "crashed"
  /\ raised = "ValueError"
  /\ FileExists(old_file) /\ FileExists(new_file)
  /\ HasSummary(old_file) /\ ~HasSummary(new_file)
  /\ ~report_saved
  /\ printed = <<>>

\* C9: a save that fails with PermissionError is caught and reported, the
\* success message is not printed and the method returns without raising;
\* any other failure of the save is reported too and nothing is raised.
C9_SaveFailureIsReported ==
  [][pc = "save_workbook" =>
       /\ pc' = "done"
       /\ raised' = "none"
       /\ save_result = "PermissionError" =>
            /\ printed' = Append(printed, PERMISSION_MESSAGE)
            /\ report_saved' = report_saved
       /\ save_result = "OSError" =>
            /\ printed' = Append(printed, ERROR_MESSAGE)
            /\ report_saved' = report_saved
       /\ save_result = "ok" =>
            /\ printed' = Append(printed, SUCCESS_MESSAGE)
            /\ report_saved']_vars

\* the output file was locked: the run ended normally with the message
C9_Witness ==
  /\ pc = "done"
  /\ save_result = "PermissionError"
  /\ printed = <<PERMISSION_MESSAGE>>
  /\ raised = "none"
  /\ ~report_saved

\* C10: for every sheet the identifiers reported fixed and those reported
\* newly added are disjoint, every fixed one is in A[s] and not in B[s], and
\* every added one is in B[s] and not in A[s].
C10_FixedAndAddedDisjoint ==
  AfterAdded =>
    \A s \in AllSheets :
      LET F == IF s \in DOMAIN fixed_cves THEN Range(fixed_cves[s]) ELSE {}
          N == IF s \in DOMAIN newly_added_cves THEN Range(newly_added_cves[s]) ELSE {}
      IN  /\ F \cap N = {}
          /\ \A x \in F : x \in IdsOf(old_mapping, s) /\ x \notin IdsOf(new_mapping, s)
          /\ \A x \in N : x \in IdsOf(new_mapping, s) /\ x \notin IdsOf(old_mapping, s)

\* App1 lost CVE-1 and gained CVE-2
C10_Witness ==
  /\ AfterAdded
  /\ old_mapping = ("App1" :> <<"CVE-1">>)
  /\ new_mapping = ("App1" :> <<"CVE-2">>)
  /\ fixed_cves = ("App1" :> <<"CVE-1">>)
  /\ newly_added_cves = ("App1" :> <<"CVE-2">>)

====
